---- MODULE Spec2Model ----
(***************************************************************************)
(* PhoneTracer: the tracer object (config loading, trace, export_results), *)
(* the social-media detector and the command-line entry point main.        *)
(*                                                                         *)
(* Python values are modelled as follows.                                  *)
(*   None / Optional[x]  : <<>> for None, <<x>> for a value x              *)
(*   dict (insertion-ordered) : a sequence of [key, value] entries         *)
(*   the empty dict self.results = {} : the empty function <<>>            *)
(*   str : a TLA+ string; int : an integer; bool : a BOOLEAN               *)
(***************************************************************************)
EXTENDS Integers, Sequences, FiniteSets, TLC

VARIABLES
    pc,          \* position of main (SpecMain) or of the tracer's life cycle
    args,        \* the command line of the run, as argparse holds it
    exitStatus,  \* how the process ended: [kind, code]
    config,      \* tracer.config
    configLog,   \* the log records written by _load_config
    results,     \* tracer.results
    now,         \* the clock read by _get_timestamp
    stdout,      \* what export_results printed, in order
    files,       \* content of the output file: <<>> when absent, <<text>>
    lastCall,    \* the most recent call on the tracer, with what it returned
    lastGood,    \* history: the record returned by the last trace that parsed
    allResults,  \* main's all_results list (batch mode)
    traceLog,    \* history: the phone numbers main passed to trace, in order
    calls,       \* number of calls made so far on the tracer
    pending      \* main's phone_numbers still to be traced (batch mode)

vars == <<pc, args, exitStatus, config, configLog, results, now, stdout, files,
          lastCall, lastGood, allResults, traceLog, calls, pending>>

----------------------------------------------------------------------------
(* Bounds of the model *)

MaxCalls == 3
MaxTime == 2
MaxItems == 3
MaxLines == 2

----------------------------------------------------------------------------
(* Python values *)

None == <<>>
Some(x) == <<x>>
IsNone(o) == o = <<>>
Value(o) == o[1]

\* truthiness of an Optional[str]: None and "" are falsy
Truthy(o) == ~IsNone(o) /\ Value(o) # ""

\* truthiness of an Optional path, given with what the file system holds there
PathGiven(o) == ~IsNone(o) /\ Value(o).path # ""

EmptyDict == <<>>

Keys(d) == {d[i].key : i \in 1..Len(d)}
HasKey(d, k) == \E i \in 1..Len(d) : d[i].key = k
DictGet(d, k) == d[CHOOSE i \in 1..Len(d) : d[i].key = k].value

\* d[k] = v : an existing key keeps its position, a new key is appended
DictSet(d, k, v) ==
    IF HasKey(d, k)
    THEN [i \in 1..Len(d) |-> IF d[i].key = k THEN [key |-> k, value |-> v] ELSE d[i]]
    ELSE Append(d, [key |-> k, value |-> v])

\* dict equality: the same keys with the same values, whatever the order
DictEq(a, b) ==
    /\ Keys(a) = Keys(b)
    /\ \A k \in Keys(a) : DictGet(a, k) = DictGet(b, k)

----------------------------------------------------------------------------
(* _load_config *)

default_config ==
    << [key |-> "timeout", value |-> 30],
       [key |-> "rate_limit", value |-> 60],
       [key |-> "cache_enabled", value |-> TRUE],
       [key |-> "verbose", value |-> FALSE] >>

\* elements a YAML sequence under 'settings' may hold: a two-element list
\* [key, value], a list of another length, a non-iterable scalar
Pair(k, v) == [type |-> "sequence", len |-> 2, key |-> k, value |-> v]
Triple == [type |-> "sequence", len |-> 3]
Scalar == [type |-> "scalar", len |-> 0]

\* dict.update(mapping): every key of the mapping is set, in its order
RECURSIVE UpdateFromMapping(_, _)
UpdateFromMapping(d, m) ==
    IF m = <<>> THEN d
    ELSE UpdateFromMapping(DictSet(d, Head(m).key, Head(m).value), Tail(m))

\* dict.update(iterable): each element is unpacked as a (key, value) pair and
\* set at once; an element that is no pair raises, and the keys set before
\* it stay set
RECURSIVE UpdateFromSequence(_, _)
UpdateFromSequence(d, s) ==
    IF s = <<>> THEN [dict |-> d, raised |-> FALSE]
    ELSE IF Head(s).type = "sequence" /\ Head(s).len = 2
         THEN UpdateFromSequence(DictSet(d, Head(s).key, Head(s).value), Tail(s))
         ELSE [dict |-> d, raised |-> TRUE]

\* default_config.update(x) for the value x found under 'settings'
DictUpdate(d, x) ==
    CASE x.type = "mapping" -> [dict |-> UpdateFromMapping(d, x.items), raised |-> FALSE]
      [] x.type = "sequence" -> UpdateFromSequence(d, x.items)
      [] OTHER -> [dict |-> d, raised |-> TRUE]

\* user_config.get('settings', {}) on the loaded document
GetSettings(doc) ==
    IF doc.type # "mapping" THEN [raised |-> TRUE]
    ELSE IF doc.has_settings THEN [raised |-> FALSE, value |-> doc.settings]
    ELSE [raised |-> FALSE, value |-> [type |-> "mapping", items |-> <<>>]]

LoadConfig(config_file) ==
    IF ~PathGiven(config_file)
    THEN [config |-> default_config, log |-> <<>>, raised |-> FALSE]
    ELSE LET f == Value(config_file) IN
         CASE f.kind = "missing" ->
                [config |-> default_config, log |-> <<"WARNING">>, raised |-> FALSE]
           [] f.kind \in {"unreadable", "invalid_yaml"} ->
                [config |-> default_config, log |-> <<"ERROR">>, raised |-> FALSE]
           [] OTHER ->
                LET s == GetSettings(f.doc) IN
                IF s.raised
                THEN [config |-> default_config, log |-> <<"ERROR">>, raised |-> FALSE]
                ELSE LET u == DictUpdate(default_config, s.value) IN
                     [config |-> u.dict,
                      log |-> IF u.raised THEN <<"ERROR">> ELSE <<>>,
                      raised |-> FALSE]

----------------------------------------------------------------------------
(* json.dumps(obj, indent=2) *)

RECURSIVE Spaces(_)
Spaces(n) == IF n = 0 THEN "" ELSE " " \o Spaces(n - 1)

JsonStr(s) == "\"" \o s \o "\""
JsonInt(n) == ToString(n)
JsonBool(b) == IF b THEN "true" ELSE "false"

\* the members of an object, one per line at indentation ind, joined by ","
RECURSIVE JsonMembers(_, _)
JsonMembers(members, ind) ==
    IF members = <<>> THEN ""
    ELSE Spaces(ind) \o JsonStr(Head(members).key) \o ": " \o Head(members).value
         \o (IF Len(members) = 1 THEN "" ELSE ",\n" \o JsonMembers(Tail(members), ind))

\* members: a sequence of [key, value], value the serialized member
JsonObject(members, ind) ==
    IF members = <<>> THEN "{}"
    ELSE "{\n" \o JsonMembers(members, ind + 2) \o "\n" \o Spaces(ind) \o "}"

\* one value of results['data']: the parsed record, a module result or an error
JsonEntry(v, ind) ==
    IF "country_code" \in DOMAIN v
    THEN JsonObject(<< [key |-> "country_code", value |-> JsonInt(v.country_code)],
                       [key |-> "national_number", value |-> JsonInt(v.national_number)],
                       [key |-> "is_valid", value |-> JsonBool(v.is_valid)],
                       [key |-> "is_possible", value |-> JsonBool(v.is_possible)] >>, ind)
    ELSE IF "status" \in DOMAIN v
    THEN JsonObject(<< [key |-> "status", value |-> JsonStr(v.status)],
                       [key |-> "message", value |-> JsonStr(v.message)] >>, ind)
    ELSE JsonObject(<< [key |-> "error", value |-> JsonStr(v.error)] >>, ind)

JsonData(data, ind) ==
    JsonObject([i \in 1..Len(data) |->
                  [key |-> data[i].key, value |-> JsonEntry(data[i].value, ind + 2)]], ind)

\* one trace record {phone_number, timestamp, data}
JsonRecord(r, ind) ==
    JsonObject(<< [key |-> "phone_number", value |-> JsonStr(r.phone_number)],
                  [key |-> "timestamp", value |-> JsonStr(r.timestamp)],
                  [key |-> "data", value |-> JsonData(r.data, ind + 2)] >>, ind)

JsonDumps(r) == JsonRecord(r, 0)

RECURSIVE JsonItems(_, _)
JsonItems(items, ind) ==
    IF items = <<>> THEN ""
    ELSE Spaces(ind) \o JsonRecord(Head(items), ind)
         \o (IF Len(items) = 1 THEN "" ELSE ",\n" \o JsonItems(Tail(items), ind))

\* json.dump(all_results, f, indent=2) of a list of trace records
JsonDumpList(items) ==
    IF items = <<>> THEN "[]" ELSE "[\n" \o JsonItems(items, 2) \o "\n]"

----------------------------------------------------------------------------
(* trace *)

\* phonenumbers.parse(number, None) with is_valid_number and
\* is_possible_number, on the numbers of the model; <<>> stands for
\* NumberParseException
PhoneNumbers == {"+442083661177", "+1234567890", "2083661177", "notanumber"}

PhoneNumbersParse(number) ==
    CASE number = "+442083661177" ->
           Some([country_code |-> 44, national_number |-> 2083661177,
                 is_valid |-> TRUE, is_possible |-> TRUE])
      [] number = "+1234567890" ->
           Some([country_code |-> 1, national_number |-> 234567890,
                 is_valid |-> FALSE, is_possible |-> FALSE])
      [] OTHER -> None

\* _parse_number: the parsed record, or None when the library raised
ParseNumber(phone_number) == PhoneNumbersParse(phone_number)

\* datetime.utcnow().isoformat() of the clock value t (seconds)
IsoFormat(t) == "2024-01-01T00:00:0" \o ToString(t)

GetTimestamp(t) == IsoFormat(t)

\* variant of RunModule with a fault: the dispatcher starts running one module for real
RunModule_SpamImplemented(module_name, phone_number) ==
    [raised |-> FALSE,
     value |-> [status |-> IF module_name = "spam" THEN "ok" ELSE "not_implemented",
                message |-> "Module " \o module_name \o " not yet implemented"]]

\* _run_module: the outcome of the call, a returned value or a raised error
RunModule(module_name, phone_number) ==
    [raised |-> FALSE,
     value |-> [status |-> "not_implemented",
                message |-> "Module " \o module_name \o " not yet implemented"]]

\* the for loop of trace over the module list: the dispatcher's result is
\* stored under the module's name, an error it raised as {error: message}
RECURSIVE RunModules(_, _, _, _)
RunModules(data, modules, phone_number, dispatched) ==
    IF modules = <<>> THEN [data |-> data, dispatched |-> dispatched]
    ELSE LET module_name == Head(modules)
             out == RunModule(module_name, phone_number)
             entry == IF out.raised THEN [error |-> out.message] ELSE out.value
         IN RunModules(DictSet(data, module_name, entry), Tail(modules),
                       phone_number, Append(dispatched, module_name))

\* variant of TraceCall with a fault: no early return when the number does not parse
TraceCall_NoEarlyReturn(self_results, phone_number, modules, t) ==
    LET base == [phone_number |-> phone_number,
                 timestamp |-> "2024-01-01T00:00:0" \o ToString(t),
                 data |-> <<>>]
        ms == IF modules = <<>> THEN <<"validator", "carrier", "location">> ELSE modules[1]
        run == RunModules(base.data, ms, phone_number, <<>>)
        r == [base EXCEPT !.data = run.data]
    IN [ret |-> r, results |-> r, dispatched |-> run.dispatched]

\* variant of TraceCall with a fault: self.results is assigned before the number is parsed
TraceCall_StoresEarly(self_results, phone_number, modules, t) ==
    LET base == [phone_number |-> phone_number,
                 timestamp |-> "2024-01-01T00:00:0" \o ToString(t),
                 data |-> <<>>]
        ms == IF modules = <<>> THEN <<"validator", "carrier", "location">> ELSE modules[1]
        parsed == PhoneNumbersParse(phone_number)
        run == RunModules(<<[key |-> "parsed", value |-> parsed[1]]>>, ms, phone_number, <<>>)
        r == [base EXCEPT !.data = run.data]
    IN IF parsed = <<>>
       THEN [ret |-> base, results |-> base, dispatched |-> <<>>]
       ELSE [ret |-> r, results |-> r, dispatched |-> run.dispatched]

DefaultModules == <<"validator", "carrier", "location">>

\* trace(phone_number, modules) at clock value t on a tracer whose stored
\* results are self_results: the returned record, the stored results after
\* the call, and the module names handed to the dispatcher
TraceCall(self_results, phone_number, modules, t) ==
    LET base == [phone_number |-> phone_number,
                 timestamp |-> GetTimestamp(t),
                 data |-> EmptyDict]
        parsed == ParseNumber(phone_number)
    IN IF IsNone(parsed)
       THEN [ret |-> base, results |-> self_results, dispatched |-> <<>>]
       ELSE LET ms == IF IsNone(modules) THEN DefaultModules ELSE Value(modules)
                run == RunModules(DictSet(base.data, "parsed", Value(parsed)),
                                  ms, phone_number, <<>>)
                r == [base EXCEPT !.data = run.data]
            IN [ret |-> r, results |-> r, dispatched |-> run.dispatched]

----------------------------------------------------------------------------
(* export_results *)

\* variant of ExportCall with a fault: the formats other than json produce no document
ExportCall_OnlyJson(self_results, output_format, output_file, writable) ==
    IF DOMAIN self_results = {}
    THEN [printed |-> <<>>, written |-> None, raised |-> FALSE, log |-> <<"WARNING">>]
    ELSE LET output == IF output_format = "json" THEN JsonDumps(self_results) ELSE ""
         IN IF Truthy(output_file)
            THEN IF writable
                 THEN [printed |-> <<>>, written |-> Some(output),
                       raised |-> FALSE, log |-> <<"INFO">>]
                 ELSE [printed |-> <<>>, written |-> None, raised |-> TRUE, log |-> <<>>]
            ELSE [printed |-> <<output>>, written |-> None, raised |-> FALSE, log |-> <<>>]

\* export_results(output_format, output_file) on stored results
\* self_results; writable says whether open(output_file, 'w') succeeds.
\* printed: what goes to stdout; written: the new content of the file, None
\* when the file is not touched; raised: the error of open propagates
ExportCall(self_results, output_format, output_file, writable) ==
    IF DOMAIN self_results = {}
    THEN [printed |-> <<>>, written |-> None, raised |-> FALSE, log |-> <<"WARNING">>]
    ELSE LET output == IF output_format = "json"
                       THEN JsonDumps(self_results)
                       ELSE JsonDumps(self_results)
             log == IF output_format = "json" THEN <<>> ELSE <<"WARNING">>
         IN IF Truthy(output_file)
            THEN IF writable
                 THEN [printed |-> <<>>, written |-> Some(output),
                       raised |-> FALSE, log |-> log \o <<"INFO">>]
                 ELSE [printed |-> <<>>, written |-> None, raised |-> TRUE, log |-> log]
            ELSE [printed |-> <<output>>, written |-> None, raised |-> FALSE, log |-> log]

----------------------------------------------------------------------------
(* SocialMediaDetector *)

platforms == <<"WhatsApp", "Telegram", "Signal", "Viber", "Facebook",
               "Instagram", "Twitter/X", "Snapchat", "TikTok", "LinkedIn">>

GenericPlatforms == <<"Viber", "Facebook", "Instagram", "Twitter/X",
                      "Snapchat", "TikTok", "LinkedIn">>

CheckWhatsapp(phone_number) ==
    [registered |-> FALSE, method |-> "API check", confidence |-> "low",
     note |-> "Requires WhatsApp Business API or third-party service"]

CheckTelegram(phone_number) ==
    [registered |-> FALSE, method |-> "Telegram API", confidence |-> "low",
     note |-> "Requires Telegram API credentials"]

CheckSignal(phone_number) ==
    [registered |-> FALSE, method |-> "Limited detection", confidence |-> "very-low",
     note |-> "Signal prioritizes privacy - limited detection possible"]

\* variant of CheckGenericPlatform with a fault: one platform is reported as possible
CheckGenericPlatform_Possible(phone_number, platform) ==
    [possible |-> platform = "TikTok", method |-> "Manual verification required",
     confidence |-> "very-low",
     note |-> platform \o " requires manual verification or account access"]

CheckGenericPlatform(phone_number, platform) ==
    [possible |-> FALSE, method |-> "Manual verification required",
     confidence |-> "very-low",
     note |-> platform \o " requires manual verification or account access"]

\* one platform's step of check_all_platforms: the platform is appended to
\* platforms_found when its check says so, and its result stored in details
Record(res, platform, result, found) ==
    [res EXCEPT !.platforms_found = IF found THEN Append(@, platform) ELSE @,
                !.details = DictSet(@, platform, result)]

RECURSIVE CheckGenericLoop(_, _, _)
CheckGenericLoop(res, phone_number, ps) ==
    IF ps = <<>> THEN res
    ELSE LET result == CheckGenericPlatform(phone_number, Head(ps))
         IN CheckGenericLoop(Record(res, Head(ps), result, result.possible),
                             phone_number, Tail(ps))

CheckAllPlatforms(phone_number) ==
    LET r0 == [phone_number |-> phone_number, platforms_found |-> <<>>,
               platforms_checked |-> platforms, details |-> EmptyDict]
        whatsapp_result == CheckWhatsapp(phone_number)
        r1 == Record(r0, "WhatsApp", whatsapp_result, whatsapp_result.registered)
        telegram_result == CheckTelegram(phone_number)
        r2 == Record(r1, "Telegram", telegram_result, telegram_result.registered)
        signal_result == CheckSignal(phone_number)
        r3 == Record(r2, "Signal", signal_result, signal_result.registered)
    IN CheckGenericLoop(r3, phone_number, GenericPlatforms)

----------------------------------------------------------------------------
(* The inputs of the model *)

\* what a YAML sequence under 'settings' may hold, and what a mapping may
ItemKinds == << Pair("timeout", 5), Pair("verbose", TRUE), Triple, Scalar >>
PairKinds == << [key |-> "timeout", value |-> 5],
                [key |-> "verbose", value |-> TRUE],
                [key |-> "proxy", value |-> "socks5"] >>

SeqsUpTo(S, n) == UNION {[1..k -> S] : k \in 0..n}
IsInjective(f) == \A i, j \in DOMAIN f : f[i] = f[j] => i = j

YamlFile(doc) == Some([path |-> "config.yaml", kind |-> "loaded", doc |-> doc])
WithSettings(x) == [type |-> "mapping", has_settings |-> TRUE, settings |-> x]

\* config_file and what the file system and the YAML loader make of it
ConfigFiles ==
    { None,
      Some([path |-> "", kind |-> "missing"]),
      Some([path |-> "config.yaml", kind |-> "missing"]),
      Some([path |-> "config.yaml", kind |-> "unreadable"]),
      Some([path |-> "config.yaml", kind |-> "invalid_yaml"]),
      YamlFile([type |-> "null"]),
      YamlFile([type |-> "sequence"]),
      YamlFile([type |-> "mapping", has_settings |-> FALSE]),
      YamlFile(WithSettings([type |-> "null"])),
      YamlFile(WithSettings([type |-> "scalar"])) }
    \cup { YamlFile(WithSettings([type |-> "sequence",
                                  items |-> [i \in DOMAIN s |-> ItemKinds[s[i]]]])) :
             s \in SeqsUpTo(DOMAIN ItemKinds, MaxItems) }
    \cup { YamlFile(WithSettings([type |-> "mapping",
                                  items |-> [i \in DOMAIN s |-> PairKinds[s[i]]]])) :
             s \in {t \in SeqsUpTo(DOMAIN PairKinds, MaxItems) : IsInjective(t)} }

ModuleLists ==
    { None, Some(<<>>), Some(<<"carrier">>), Some(<<"carrier", "spam">>),
      Some(<<"spam", "spam">>), Some(<<"parsed", "carrier">>) }

Formats == {"json", "csv", "html"}
OutputFiles == {None, Some(""), Some("out.json")}

NoArgs == [config |-> None]
Running == [kind |-> "running", code |-> 0]
NoCall == [kind |-> "none"]

----------------------------------------------------------------------------
(* PhoneTracer.__init__ over every config file: SpecConfig *)

InitConfig ==
    /\ pc = "new"
    /\ args \in {[config |-> f] : f \in ConfigFiles}
    /\ exitStatus = Running
    /\ config = EmptyDict
    /\ configLog = <<>>
    /\ results = EmptyDict
    /\ now = 0
    /\ stdout = <<>>
    /\ files = None
    /\ lastCall = NoCall
    /\ lastGood = EmptyDict
    /\ allResults = <<>>
    /\ traceLog = <<>>
    /\ calls = 0
    /\ pending = <<>>

\* tracer = PhoneTracer(config_file)
Construct ==
    /\ pc = "new"
    /\ LET loaded == LoadConfig(args.config)
       IN /\ config' = loaded.config
          /\ configLog' = loaded.log
          /\ lastCall' = [kind |-> "init", raised |-> loaded.raised]
    /\ results' = EmptyDict
    /\ pc' = "ready"
    /\ UNCHANGED <<args, exitStatus, now, stdout, files, lastGood, allResults,
                   traceLog, calls, pending>>

NextConfig == Construct

SpecConfig == InitConfig /\ [][NextConfig]_vars

----------------------------------------------------------------------------
(* Calls on one tracer, in any order: Spec *)

Init ==
    /\ pc = "ready"
    /\ args = NoArgs
    /\ exitStatus = Running
    /\ config = LoadConfig(None).config
    /\ configLog = LoadConfig(None).log
    /\ results = EmptyDict
    /\ now = 0
    /\ stdout = <<>>
    /\ files = None
    /\ lastCall = NoCall
    /\ lastGood = EmptyDict
    /\ allResults = <<>>
    /\ traceLog = <<>>
    /\ calls = 0
    /\ pending = <<>>

\* tracer.trace(phone_number, modules); the clock has advanced by tick
Trace(phone_number, modules, tick) ==
    /\ pc = "ready"
    /\ calls < MaxCalls
    /\ now + tick <= MaxTime
    /\ LET call == TraceCall(results, phone_number, modules, now + tick)
       IN /\ results' = call.results
          /\ lastCall' = [kind |-> "trace", phone_number |-> phone_number,
                          modules |-> modules, ret |-> call.ret,
                          dispatched |-> call.dispatched]
          /\ lastGood' = IF IsNone(ParseNumber(phone_number)) THEN lastGood ELSE call.ret
    /\ now' = now + tick
    /\ calls' = calls + 1
    /\ UNCHANGED <<pc, args, exitStatus, config, configLog, stdout, files,
                   allResults, traceLog, pending>>

\* tracer.export_results(output_format, output_file)
Export(output_format, output_file, writable) ==
    /\ pc = "ready"
    /\ calls < MaxCalls
    /\ LET call == ExportCall(results, output_format, output_file, writable)
       IN /\ stdout' = stdout \o call.printed
          /\ files' = IF IsNone(call.written) THEN files ELSE call.written
          /\ lastCall' = [kind |-> "export", output_format |-> output_format,
                          output_file |-> output_file, writable |-> writable,
                          printed |-> call.printed,
                          written |-> call.written, raised |-> call.raised]
    /\ calls' = calls + 1
    /\ UNCHANGED <<pc, args, exitStatus, config, configLog, results, now,
                   lastGood, allResults, traceLog, pending>>

\* detect_social_media(phone_number)
Detect(phone_number) ==
    /\ pc = "ready"
    /\ calls < MaxCalls
    /\ lastCall' = [kind |-> "detect", phone_number |-> phone_number,
                    ret |-> CheckAllPlatforms(phone_number)]
    /\ calls' = calls + 1
    /\ UNCHANGED <<pc, args, exitStatus, config, configLog, results, now, stdout,
                   files, lastGood, allResults, traceLog, pending>>

Next ==
    \/ \E n \in PhoneNumbers, ms \in ModuleLists, tick \in {0, 1} : Trace(n, ms, tick)
    \/ \E f \in Formats, o \in OutputFiles, w \in BOOLEAN : Export(f, o, w)
    \/ \E n \in PhoneNumbers : Detect(n)

Spec == Init /\ [][Next]_vars

----------------------------------------------------------------------------
(* Properties of the calls on one tracer (Spec) *)

LastTrace == lastCall.kind = "trace"
LastParsed == LastTrace /\ ~IsNone(ParseNumber(lastCall.phone_number))
LastFailed == LastTrace /\ IsNone(ParseNumber(lastCall.phone_number))
Requested == IF IsNone(lastCall.modules) THEN DefaultModules ELSE Value(lastCall.modules)

\* C1: a trace of a number that does not parse returns a record with that
\* phone_number, the timestamp of the call and an empty data mapping (no
\* 'parsed' entry, no module entry), and hands no module to the dispatcher.
C1_ParseFailureShortCircuits ==
    LastFailed =>
        /\ lastCall.ret.phone_number = lastCall.phone_number
        /\ lastCall.ret.timestamp = GetTimestamp(now)
        /\ lastCall.ret.data = EmptyDict
        /\ ~HasKey(lastCall.ret.data, "parsed")
        /\ \A i \in 1..Len(Requested) : ~HasKey(lastCall.ret.data, Requested[i])
        /\ lastCall.dispatched = <<>>

C1_Witness ==
    /\ LastFailed
    /\ lastCall.modules = Some(<<"carrier", "spam">>)
    /\ lastCall.ret.phone_number = "notanumber"

\* C3 (as claimed): after a trace of a number that parses, data holds the
\* parsed-number record under 'parsed' and one entry per requested module
\* name, each the dispatcher's result or {error: message}, and every module
\* of the list has been handed to the dispatcher.
C3_ParsedAndOneEntryPerModule ==
    LastParsed =>
        LET data == lastCall.ret.data
            n == lastCall.phone_number
        IN /\ HasKey(data, "parsed")
           /\ DictGet(data, "parsed") = Value(ParseNumber(n))
           /\ lastCall.dispatched = Requested
           /\ \A i \in 1..Len(Requested) :
                 /\ HasKey(data, Requested[i])
                 /\ LET e == DictGet(data, Requested[i])
                    IN \/ e = RunModule(Requested[i], n).value
                       \/ DOMAIN e = {"error"}

\* C6: export_results with format csv or html does exactly what it does with
\* json: the JSON document of the stored results goes to the output file
\* when one is given, to stdout otherwise (nothing when nothing is stored).
C6_CsvHtmlFallBackToJson ==
    (lastCall.kind = "export" /\ lastCall.output_format \in {"csv", "html"}) =>
        LET json == ExportCall(results, "json", lastCall.output_file, lastCall.writable)
        IN /\ lastCall.printed = json.printed
           /\ lastCall.written = json.written
           /\ lastCall.raised = json.raised
           /\ (results # EmptyDict /\ ~lastCall.raised) =>
                 IF Truthy(lastCall.output_file)
                 THEN /\ lastCall.written = Some(JsonDumps(results))
                      /\ files = Some(JsonDumps(results))
                      /\ lastCall.printed = <<>>
                 ELSE /\ lastCall.printed = <<JsonDumps(results)>>
                      /\ stdout[Len(stdout)] = JsonDumps(results)
                      /\ lastCall.written = None

C6_Witness ==
    /\ lastCall.kind = "export"
    /\ lastCall.output_format = "csv"
    /\ lastCall.output_file = Some("out.json")
    /\ files # None
    /\ HasKey(results.data, "carrier")

\* the boolean field of a platform's result: 'registered' or 'possible'
Flag(result) ==
    IF "registered" \in DOMAIN result THEN result.registered ELSE result.possible

\* C7: check_all_platforms returns a details entry for each of the ten
\* platform names of platforms_checked, the boolean field of each is false,
\* and platforms_found is empty.
C7_NoPlatformEverFound ==
    lastCall.kind = "detect" =>
        LET r == lastCall.ret
        IN /\ Len(r.platforms_checked) = 10
           /\ Cardinality({r.platforms_checked[i] : i \in 1..Len(r.platforms_checked)}) = 10
           /\ Keys(r.details) = {r.platforms_checked[i] : i \in 1..Len(r.platforms_checked)}
           /\ \A i \in 1..Len(r.platforms_checked) :
                 /\ HasKey(r.details, r.platforms_checked[i])
                 /\ Flag(DictGet(r.details, r.platforms_checked[i])) = FALSE
           /\ r.platforms_found = <<>>

C7_Witness ==
    /\ lastCall.kind = "detect"
    /\ lastCall.phone_number = "+442083661177"
    /\ Len(lastCall.ret.details) = 10

\* C8: the dispatcher returns status "not_implemented" for every module name
\* and number without raising, so every module entry trace produces has
\* status "not_implemented".
C8_EveryModuleNotImplemented ==
    LastParsed =>
        \A i \in 1..Len(Requested) :
            LET out == RunModule(Requested[i], lastCall.phone_number)
                e == DictGet(lastCall.ret.data, Requested[i])
            IN /\ ~out.raised
               /\ out.value.status = "not_implemented"
               /\ "status" \in DOMAIN e
               /\ e.status = "not_implemented"

C8_Witness ==
    /\ LastParsed
    /\ lastCall.modules = Some(<<"carrier", "spam">>)
    /\ Len(lastCall.ret.data) = 3

\* C10: the stored results are the record returned by the most recent trace
\* whose number parsed, empty when there was none; a trace that fails leaves
\* them as they were, and export_results exports that record, or nothing
\* (no file written, nothing printed) when no trace has succeeded yet.
C10_StoredResultsAreLastParsedTrace ==
    /\ results = lastGood
    /\ LastParsed => results = lastCall.ret
    /\ lastCall.kind = "export" =>
          IF lastGood = EmptyDict
          THEN lastCall.printed = <<>> /\ lastCall.written = None /\ ~lastCall.raised
          ELSE \/ lastCall.raised /\ lastCall.printed = <<>> /\ lastCall.written = None
               \/ /\ ~lastCall.raised
                  /\ IF Truthy(lastCall.output_file)
                     THEN lastCall.written = Some(JsonDumps(lastGood))
                     ELSE lastCall.printed = <<JsonDumps(lastGood)>>

C10_Witness ==
    /\ LastFailed
    /\ results # EmptyDict
    /\ results.phone_number = "+1234567890"
    /\ lastCall.ret.phone_number = "2083661177"

----------------------------------------------------------------------------
(* Properties of config loading (SpecConfig) *)

IsPair(e) == e.type = "sequence" /\ e.len = 2

\* dict.update accepts the value found under 'settings'
Mergeable(x) ==
    \/ x.type = "mapping"
    \/ x.type = "sequence" /\ \A i \in 1..Len(x.items) : IsPair(x.items[i])

\* the file is missing, unreadable, no YAML, or its settings cannot be merged
Unloadable(config_file) ==
    /\ ~IsNone(config_file)
    /\ Value(config_file).path # ""
    /\ LET f == Value(config_file)
       IN \/ f.kind # "loaded"
          \/ f.doc.type # "mapping"
          \/ f.doc.has_settings /\ ~Mergeable(f.doc.settings)

\* the last value the settings give to key k
LastValue(items, k) ==
    items[CHOOSE i \in 1..Len(items) :
            /\ items[i].key = k
            /\ \A j \in (i + 1)..Len(items) : items[j].key # k].value

\* C5 (as claimed): _load_config never raises; when the file is missing or
\* cannot be parsed or merged it logs and returns exactly the defaults; when
\* the file loads, the result is the defaults overridden key by key by the
\* file's settings.
C5_FallBackToDefaults ==
    pc = "ready" =>
        /\ ~lastCall.raised
        /\ IF Unloadable(args.config)
           THEN /\ configLog # <<>>
                /\ DictEq(config, default_config)
           ELSE IF ~IsNone(args.config) /\ Value(args.config).path # ""
                   /\ Value(args.config).doc.has_settings
                THEN LET items == Value(args.config).doc.settings.items
                     IN /\ Keys(config) = Keys(default_config) \cup Keys(items)
                        /\ \A k \in Keys(config) :
                              DictGet(config, k) = IF HasKey(items, k)
                                                   THEN LastValue(items, k)
                                                   ELSE DictGet(default_config, k)
                ELSE DictEq(config, default_config)

----------------------------------------------------------------------------
(* main *)

Choices == {"json", "csv", "html"}

\* a line of the batch file: a sequence of chunks, each a run of
\* non-whitespace characters or one whitespace character
Whitespace == {" ", "\t", "\n"}

RECURSIVE LStrip(_)
LStrip(line) ==
    IF line # <<>> /\ Head(line) \in Whitespace THEN LStrip(Tail(line)) ELSE line

RECURSIVE RStrip(_)
RStrip(line) ==
    IF line # <<>> /\ line[Len(line)] \in Whitespace
    THEN RStrip(SubSeq(line, 1, Len(line) - 1))
    ELSE line

RECURSIVE Concat(_)
Concat(chunks) == IF chunks = <<>> THEN "" ELSE Head(chunks) \o Concat(Tail(chunks))

\* line.strip()
Strip(line) == Concat(RStrip(LStrip(line)))

\* variant of ReadNumbers with a fault: the blank lines are kept
RECURSIVE ReadNumbers_KeepBlank(_)
ReadNumbers_KeepBlank(lines) ==
    IF lines = <<>> THEN <<>>
    ELSE <<Strip(Head(lines))>> \o ReadNumbers_KeepBlank(Tail(lines))

\* [line.strip() for line in f if line.strip()]
RECURSIVE ReadNumbers(_)
ReadNumbers(lines) ==
    IF lines = <<>> THEN <<>>
    ELSE (IF Strip(Head(lines)) # "" THEN <<Strip(Head(lines))>> ELSE <<>>)
         \o ReadNumbers(Tail(lines))

\* variant of ParseArgs with a fault: --format is declared without choices
ParseArgs_NoChoices(cmd) ==
    IF cmd.version # "absent"
    THEN [exit |-> Some(0), cause |-> "version"]
    ELSE [exit |-> None, cause |-> "none"]

\* parser.parse_args(): --version prints and exits 0 when it is reached, a
\* --format outside the choices is a usage error (exit 2) when it is reached
ParseArgs(cmd) ==
    IF cmd.version = "before_format"
    THEN [exit |-> Some(0), cause |-> "version"]
    ELSE IF cmd.format \notin Choices
    THEN [exit |-> Some(2), cause |-> "usage"]
    ELSE IF cmd.version = "after_format"
    THEN [exit |-> Some(0), cause |-> "version"]
    ELSE [exit |-> None, cause |-> "none"]

Exit(code, cause, at) == [kind |-> "exit", code |-> code, cause |-> cause, at |-> at]

\* variant of MainExcept with a fault: the two except clauses exit with the same code
MainExcept_SameCode(exc, at) == Exit(1, IF exc = "KeyboardInterrupt" THEN "interrupt" ELSE "error", at)

\* the except clauses of main's try block
MainExcept(exc, at) ==
    IF exc = "KeyboardInterrupt"
    THEN Exit(130, "interrupt", at)
    ELSE Exit(1, "error", at)

\* an exception that leaves main outside the try block ends the interpreter:
\* exit code 1 for an Exception; for a KeyboardInterrupt exit code 1 or death
\* by SIGINT, as the interpreter version has it
Uncaught(exc, at) ==
    IF exc = "KeyboardInterrupt"
    THEN {Exit(1, "interrupt", at),
          [kind |-> "signal", code |-> 2, cause |-> "interrupt", at |-> at]}
    ELSE {Exit(1, "error", at)}

LineKinds == << <<"\n">>,
                <<"+442083661177", "\n">>,
                <<" ", "notanumber", " ", "\n">> >>

\* --batch and what the file system holds at that path
BatchFiles ==
    { None, Some([path |-> "numbers.txt", exists |-> FALSE, lines |-> <<>>]) }
    \cup { Some([path |-> "numbers.txt", exists |-> TRUE,
                 lines |-> [i \in DOMAIN s |-> LineKinds[s[i]]]]) :
             s \in SeqsUpTo(DOMAIN LineKinds, MaxLines) }

CommandLines ==
    [ phone_number : {None, Some(""), Some("+442083661177"), Some("notanumber")},
      modules : {None, Some(<<"parsed", "spam">>)},
      config : {None, YamlFile(WithSettings([type |-> "mapping",
                                             items |-> <<PairKinds[1]>>]))},
      output : {None, Some("out.json")},
      format : {"json", "csv", "html", "xml"},
      batch : BatchFiles,
      version : {"absent", "before_format", "after_format"} ]

InitMain ==
    /\ pc = "start"
    /\ args \in CommandLines
    /\ exitStatus = Running
    /\ config = EmptyDict
    /\ configLog = <<>>
    /\ results = EmptyDict
    /\ now = 0
    /\ stdout = <<>>
    /\ files = None
    /\ lastCall = NoCall
    /\ lastGood = EmptyDict
    /\ allResults = <<>>
    /\ traceLog = <<>>
    /\ calls = 0
    /\ pending = <<>>

\* the process ends with status st
Terminate(st) ==
    /\ pc' = "done"
    /\ exitStatus' = st

\* args = parser.parse_args() on the command line of the run
MainParseArgs(intr) ==
    /\ pc = "start"
    /\ IF intr
       THEN \E st \in Uncaught("KeyboardInterrupt", pc) : Terminate(st)
       ELSE LET p == ParseArgs(args)
            IN IF IsNone(p.exit)
               THEN pc' = "banner" /\ UNCHANGED exitStatus
               ELSE Terminate(Exit(Value(p.exit), p.cause, pc))
    /\ UNCHANGED <<args, config, configLog, results, now, stdout, files, lastCall,
                   lastGood, allResults, traceLog, calls, pending>>

\* print_banner() and the check that a phone number or a batch file is given
MainBanner(encodable, intr) ==
    /\ pc = "banner"
    /\ IF intr
       THEN \E st \in Uncaught("KeyboardInterrupt", pc) : Terminate(st)
       ELSE IF ~encodable
       THEN \E st \in Uncaught("UnicodeEncodeError", pc) : Terminate(st)
       ELSE IF ~Truthy(args.phone_number) /\ ~PathGiven(args.batch)
       THEN Terminate(Exit(1, "missing_input", pc))
       ELSE pc' = "construct" /\ UNCHANGED exitStatus
    /\ UNCHANGED <<args, config, configLog, results, now, stdout, files, lastCall,
                   lastGood, allResults, traceLog, calls, pending>>

\* tracer = PhoneTracer(config_file=args.config)
MainConstruct(intr) ==
    /\ pc = "construct"
    /\ IF intr
       THEN /\ \E st \in Uncaught("KeyboardInterrupt", pc) : Terminate(st)
            /\ UNCHANGED <<config, configLog, lastCall>>
       ELSE /\ LET loaded == LoadConfig(args.config)
               IN /\ config' = loaded.config
                  /\ configLog' = loaded.log
                  /\ lastCall' = [kind |-> "init", raised |-> loaded.raised]
            /\ pc' = "try"
            /\ UNCHANGED exitStatus
    /\ results' = EmptyDict
    /\ UNCHANGED <<args, now, stdout, files, lastGood, allResults, traceLog, calls,
                   pending>>

\* batch mode: the file is opened and its lines read
MainReadBatch(intr) ==
    /\ pc = "try"
    /\ PathGiven(args.batch)
    /\ IF intr
       THEN Terminate(MainExcept("KeyboardInterrupt", pc)) /\ UNCHANGED pending
       ELSE IF ~Value(args.batch).exists
       THEN Terminate(MainExcept("FileNotFoundError", pc)) /\ UNCHANGED pending
       ELSE /\ pending' = ReadNumbers(Value(args.batch).lines)
            /\ pc' = "batch"
            /\ UNCHANGED exitStatus
    /\ UNCHANGED <<args, config, configLog, results, now, stdout, files, lastCall,
                   lastGood, allResults, traceLog, calls>>

\* batch mode, one turn of the loop: result = tracer.trace(phone_number,
\* modules=args.modules); all_results.append(result)
MainBatchTrace(tick, intr) ==
    /\ pc = "batch"
    /\ pending # <<>>
    /\ now + tick <= MaxTime
    /\ IF intr
       THEN /\ Terminate(MainExcept("KeyboardInterrupt", pc))
            /\ UNCHANGED <<results, lastCall, lastGood, allResults, traceLog,
                           pending, now, calls>>
       ELSE /\ LET phone_number == Head(pending)
                   call == TraceCall(results, phone_number, args.modules, now + tick)
               IN /\ results' = call.results
                  /\ lastCall' = [kind |-> "trace", phone_number |-> phone_number,
                                  modules |-> args.modules, ret |-> call.ret,
                                  dispatched |-> call.dispatched]
                  /\ lastGood' = IF IsNone(ParseNumber(phone_number))
                                 THEN lastGood ELSE call.ret
                  /\ allResults' = Append(allResults, call.ret)
                  /\ traceLog' = Append(traceLog, phone_number)
            /\ pending' = Tail(pending)
            /\ now' = now + tick
            /\ calls' = calls + 1
            /\ UNCHANGED <<pc, exitStatus>>
    /\ UNCHANGED <<args, config, configLog, stdout, files>>

\* batch mode, after the loop: json.dump(all_results, f, indent=2) when
\* --output is given, then the success message
MainBatchExport(writable, intr) ==
    /\ pc = "batch"
    /\ pending = <<>>
    /\ IF intr
       THEN Terminate(MainExcept("KeyboardInterrupt", pc)) /\ UNCHANGED files
       ELSE IF ~Truthy(args.output)
       THEN Terminate(Exit(0, "success", pc)) /\ UNCHANGED files
       ELSE IF ~writable
       THEN Terminate(MainExcept("OSError", pc)) /\ UNCHANGED files
       ELSE /\ files' = Some(JsonDumpList(allResults))
            /\ Terminate(Exit(0, "success", pc))
    /\ UNCHANGED <<args, config, configLog, results, now, stdout, lastCall,
                   lastGood, allResults, traceLog, calls, pending>>

\* single mode: results = tracer.trace(args.phone_number, modules=args.modules)
MainSingleTrace(tick, intr) ==
    /\ pc = "try"
    /\ ~PathGiven(args.batch)
    /\ now + tick <= MaxTime
    /\ IF intr
       THEN /\ Terminate(MainExcept("KeyboardInterrupt", pc))
            /\ UNCHANGED <<results, lastCall, lastGood, traceLog, now, calls>>
       ELSE /\ LET phone_number == Value(args.phone_number)
                   call == TraceCall(results, phone_number, args.modules, now + tick)
               IN /\ results' = call.results
                  /\ lastCall' = [kind |-> "trace", phone_number |-> phone_number,
                                  modules |-> args.modules, ret |-> call.ret,
                                  dispatched |-> call.dispatched]
                  /\ lastGood' = IF IsNone(ParseNumber(phone_number))
                                 THEN lastGood ELSE call.ret
                  /\ traceLog' = Append(traceLog, phone_number)
            /\ now' = now + tick
            /\ calls' = calls + 1
            /\ pc' = "export"
            /\ UNCHANGED exitStatus
    /\ UNCHANGED <<args, config, configLog, stdout, files, allResults, pending>>

\* single mode: tracer.export_results(output_format=args.format,
\* output_file=args.output), then the success message
MainSingleExport(writable, intr) ==
    /\ pc = "export"
    /\ IF intr
       THEN /\ Terminate(MainExcept("KeyboardInterrupt", pc))
            /\ UNCHANGED <<stdout, files, lastCall, calls>>
       ELSE /\ LET call == ExportCall(results, args.format, args.output, writable)
               IN /\ stdout' = stdout \o call.printed
                  /\ files' = IF IsNone(call.written) THEN files ELSE call.written
                  /\ lastCall' = [kind |-> "export", output_format |-> args.format,
                                  output_file |-> args.output, writable |-> writable,
                                  printed |-> call.printed, written |-> call.written,
                                  raised |-> call.raised]
                  /\ IF call.raised
                     THEN Terminate(MainExcept("OSError", pc))
                     ELSE Terminate(Exit(0, "success", pc))
            /\ calls' = calls + 1
    /\ UNCHANGED <<args, config, configLog, results, now, lastGood, allResults,
                   traceLog, pending>>

NextMain ==
    \/ \E intr \in BOOLEAN : MainParseArgs(intr)
    \/ \E encodable, intr \in BOOLEAN : MainBanner(encodable, intr)
    \/ \E intr \in BOOLEAN : MainConstruct(intr)
    \/ \E intr \in BOOLEAN : MainReadBatch(intr)
    \/ \E tick \in {0, 1}, intr \in BOOLEAN : MainBatchTrace(tick, intr)
    \/ \E writable, intr \in BOOLEAN : MainBatchExport(writable, intr)
    \/ \E tick \in {0, 1}, intr \in BOOLEAN : MainSingleTrace(tick, intr)
    \/ \E writable, intr \in BOOLEAN : MainSingleExport(writable, intr)

SpecMain == InitMain /\ [][NextMain]_vars

----------------------------------------------------------------------------
(* Properties of main (SpecMain) *)

BatchDone ==
    /\ pc = "done"
    /\ exitStatus.cause = "success"
    /\ PathGiven(args.batch)

PhoneNumbersOf(records) == [i \in 1..Len(records) |-> records[i].phone_number]

NotEmpty(text) == text # ""

\* the non-blank lines of the file, each without its surrounding whitespace
NonBlankLines(lines) ==
    SelectSeq([i \in 1..Len(lines) |-> Strip(lines[i])], NotEmpty)

\* C2 (as claimed): a batch run over a file of N lines yields exactly N
\* result records, the i-th with the i-th line as its phone_number.
C2_OneRecordPerLine ==
    BatchDone =>
        LET lines == Value(args.batch).lines
        IN /\ Len(allResults) = Len(lines)
           /\ \A i \in 1..Len(lines) :
                 i <= Len(allResults) /\ allResults[i].phone_number = Strip(lines[i])

\* C2 (amended): a batch run yields one result record per non-blank line,
\* in the order of the file, the i-th record's phone_number being the i-th
\* non-blank line without its surrounding whitespace, whether or not it
\* parses; the records are written to the output file when --output is
\* given, and nowhere otherwise.
C2_OneRecordPerNonBlankLine ==
    /\ pc = "batch" =>
          PhoneNumbersOf(allResults) \o pending = NonBlankLines(Value(args.batch).lines)
    /\ BatchDone =>
          LET numbers == NonBlankLines(Value(args.batch).lines)
          IN /\ Len(allResults) = Len(numbers)
             /\ \A i \in 1..Len(numbers) : allResults[i].phone_number = numbers[i]
             /\ traceLog = numbers
             /\ stdout = <<>>
             /\ files = IF Truthy(args.output) THEN Some(JsonDumpList(allResults)) ELSE None

C2_Witness ==
    /\ BatchDone
    /\ Value(args.batch).lines = <<LineKinds[3], LineKinds[2]>>
    /\ PhoneNumbersOf(allResults) = <<"notanumber", "+442083661177">>
    /\ allResults[1].data = EmptyDict
    /\ files # None

InTry == {"try", "batch", "export"}

\* C4 (as claimed): main ends with exit code 0 on success, 1 when no input
\* is given or an error occurs, 130 when interrupted, wherever in the run the
\* error or the interrupt happens, and with no other exit code.
C4_ExitCodes ==
    pc = "done" =>
        /\ exitStatus.kind = "exit"
        /\ exitStatus.code \in {0, 1, 130}
        /\ exitStatus.cause = "success" => exitStatus.code = 0
        /\ exitStatus.cause \in {"missing_input", "error"} => exitStatus.code = 1
        /\ exitStatus.cause = "interrupt" => exitStatus.code = 130

\* C4 (amended): main ends with exit code 0 on success or --version, 2 when
\* argument parsing rejects the command line, 1 when no input is given or an
\* error occurs, 130 when interrupted inside the try block (reading the
\* batch, tracing, exporting); an interrupt before the try block (argument
\* parsing, banner, config loading) is not caught by main and ends the
\* process as the interpreter ends an uncaught KeyboardInterrupt, by SIGINT
\* or with exit code 1. No other exit code is produced, and a run that has
\* not ended can take a step.
C4_ExitCodesWithUsageErrors ==
    /\ pc # "done" => exitStatus = Running /\ ENABLED NextMain
    /\ pc = "done" =>
          /\ exitStatus.kind = "exit" => exitStatus.code \in {0, 1, 2, 130}
          /\ exitStatus.cause \in {"success", "version"} =>
                exitStatus.kind = "exit" /\ exitStatus.code = 0
          /\ exitStatus.cause = "usage" =>
                exitStatus.kind = "exit" /\ exitStatus.code = 2
          /\ exitStatus.cause \in {"missing_input", "error"} =>
                exitStatus.kind = "exit" /\ exitStatus.code = 1
          /\ (exitStatus.cause = "interrupt" /\ exitStatus.at \in InTry) =>
                exitStatus.kind = "exit" /\ exitStatus.code = 130
          /\ (exitStatus.cause = "interrupt" /\ exitStatus.at \notin InTry) =>
                \/ exitStatus.kind = "exit" /\ exitStatus.code = 1
                \/ exitStatus.kind = "signal"
          /\ exitStatus.kind = "signal" =>
                exitStatus.cause = "interrupt" /\ exitStatus.at \notin InTry

C4_Witness ==
    /\ pc = "done"
    /\ exitStatus.cause = "usage"
    /\ exitStatus.code = 2
    /\ Truthy(args.phone_number)

\* C9: a --format outside json, csv, html is rejected by argument parsing
\* before anything is traced or exported, and export_results is never called
\* with another format.
C9_UnknownFormatRejected ==
    /\ lastCall.kind = "export" => lastCall.output_format \in Choices
    /\ (pc # "start" /\ args.format \notin Choices) =>
          /\ pc = "done"
          /\ exitStatus.at = "start"
          /\ exitStatus.cause # "success"
          /\ lastCall = NoCall
          /\ traceLog = <<>>
          /\ allResults = <<>>
          /\ results = EmptyDict
          /\ stdout = <<>>
          /\ files = None

C9_Witness ==
    /\ pc = "done"
    /\ args.format = "xml"
    /\ args.version = "absent"
    /\ args.phone_number = Some("+442083661177")
    /\ exitStatus.code = 2

====
